---- MODULE Spec2Model ----
(***************************************************************************)
(* Filter pipeline of the Olympics dashboard: utils.apply_filters and the  *)
(* inline filter blocks of the four Streamlit pages, over pandas frames    *)
(* modelled as a set of column names plus an ordered sequence of rows.     *)
(***************************************************************************)
EXTENDS Integers, Sequences, FiniteSets, TLC

VARIABLES df, args, res, chained, data, filters, view,
          code, continent, lookups, colname,
          coords_file, geocode_calls, venues_mapped

\* the classifier's last call, the reference-data lookups made so far, and
\* the column name last handed to add_continent_column
classVars == <<code, continent, lookups, colname>>

\* data/venue_coordinates.csv, the geocoder requests made so far for each
\* venue, and the venue map on screen (none off the Sports and Events page)
venueVars == <<coords_file, geocode_calls, venues_mapped>>

vars == <<df, args, res, chained, data, filters, view, classVars, venueVars>>

(***************************************************************************)
(* Bounds and value universes                                              *)
(***************************************************************************)
\* longest table handed to apply_filters
MaxRows == 2

\* longest loaded medals table
MaxMedalRows == 1

\* longest loaded medals table of the runs that look at the sidebar's options
MaxSidebarRows == 2

\* longest loaded venues table
MaxVenues == 2

\* most geocoder requests counted for one venue
MaxGeocodeCalls == 2

\* most reference-data lookups followed for one country code
MaxLookups == 2

\* a missing cell (pandas NaN)
NaN == "NaN"

\* no column / no value (Python None)
None == "None"

CountryCodes == {"FRA", "JPN"}

SportNames == {"Volleyball", "Beach Volleyball"}

\* venue names: two the geocoder knows, one it finds nothing for
VenueNames == {"Stade de France", "Grand Palais", "Arena X"}

MedalLabels == {"Gold Medal", "Silver Medal"}

\* raw gender cells of the per-medal-event table
GenderCells == {"M", "W", "Male"}

\* every label a sidebar widget can offer
AllLabels ==
  CountryCodes \cup SportNames \cup MedalLabels
    \cup {"Male", "Female", "Europe", "Asia"}

AllCells == CountryCodes \cup SportNames \cup MedalLabels \cup GenderCells

\* the values a column of the given name holds in the input tables
ColValues(c) ==
  CASE c = "country_code" -> CountryCodes
    [] c \in {"sport", "discipline"} -> SportNames
    [] c \in {"medal_type", "medal"} -> MedalLabels
    [] c = "gender" -> GenderCells
    [] OTHER -> {NaN}

\* column layouts of the tables handed to apply_filters
FilterSchemas ==
  { {"country_code", "sport", "medal_type"},
    {"discipline", "medal_type"},
    {"sport", "medal"},
    {"country_code", "medal_type"},
    {"country_code", "sport"} }

RowsOf(cols) == {r \in [cols -> AllCells] : \A c \in cols : r[c] \in ColValues(c)}

SeqsUpTo(S, n) == UNION {[1..k -> S] : k \in 0..n}

\* a pandas DataFrame: its columns and its rows in order; raised marks a
\* KeyError thrown while computing it; origin names the variable or loaded
\* table whose object this is, None for an object nothing else refers to
Frame(cols, rows) == [cols |-> cols, rows |-> rows, raised |-> FALSE, origin |-> None]

KeyError == [cols |-> {}, rows |-> <<>>, raised |-> TRUE, origin |-> None]

\* the object a variable or a dict entry called `name` refers to
Named(name, f) == [f EXCEPT !.origin = name]

FramesOver(schemas, n) ==
  UNION {{Frame(cols, rows) : rows \in SeqsUpTo(RowsOf(cols), n)} : cols \in schemas}

(***************************************************************************)
(* pandas operations used by the filter code                               *)
(***************************************************************************)
\* mutant: no copy is taken, the same object is handed on
Copy_alias(f) == f

\* df.copy(): a new object with the same columns and rows
Copy(f) == [f EXCEPT !.origin = None]

\* df[df[col].isin(sel)] : KeyError when the column is absent
IsinFilter(f, col, sel) ==
  IF f.raised THEN f
  ELSE IF col \notin f.cols THEN KeyError
  ELSE [f EXCEPT !.rows = SelectSeq(f.rows, LAMBDA r : r[col] \in sel),
                 !.origin = None]

(***************************************************************************)
(* utils.apply_filters                                                     *)
(***************************************************************************)
\* mutant: the truthiness test of each selection is dropped
apply_filters_always(f, selected_countries, selected_sports, selected_medals) ==
  LET f0 == Copy(f)
      f1 == IF "country_code" \in f0.cols
            THEN IsinFilter(f0, "country_code", selected_countries) ELSE f0
      f2 == IF "sport" \in f1.cols
            THEN IsinFilter(f1, "sport", selected_sports) ELSE f1
      medal_col == IF "medal_type" \in f2.cols THEN "medal_type"
                   ELSE IF "medal" \in f2.cols THEN "medal" ELSE None
  IN IF medal_col # None THEN IsinFilter(f2, medal_col, selected_medals) ELSE f2

\* mutant: the criteria are chained with elif, only the first active one applies
apply_filters_elif(f, selected_countries, selected_sports, selected_medals) ==
  LET f0 == Copy(f)
      medal_col == IF "medal_type" \in f0.cols THEN "medal_type"
                   ELSE IF "medal" \in f0.cols THEN "medal" ELSE None
  IN IF selected_countries # {} /\ "country_code" \in f0.cols
     THEN IsinFilter(f0, "country_code", selected_countries)
     ELSE IF selected_sports # {} /\ "sport" \in f0.cols
     THEN IsinFilter(f0, "sport", selected_sports)
     ELSE IF selected_medals # {} /\ medal_col # None
     THEN IsinFilter(f0, medal_col, selected_medals)
     ELSE f0

\* mutant: the sport filter reads the input table, not the narrowed one
apply_filters_overwrite(f, selected_countries, selected_sports, selected_medals) ==
  LET f0 == Copy(f)
      f1 == IF selected_countries # {} /\ "country_code" \in f0.cols
            THEN IsinFilter(f0, "country_code", selected_countries) ELSE f0
      f2 == IF selected_sports # {} /\ "sport" \in f1.cols
            THEN IsinFilter(f0, "sport", selected_sports) ELSE f1
      medal_col == IF "medal_type" \in f2.cols THEN "medal_type"
                   ELSE IF "medal" \in f2.cols THEN "medal" ELSE None
  IN IF selected_medals # {} /\ medal_col # None
     THEN IsinFilter(f2, medal_col, selected_medals) ELSE f2

\* mutant: only the column name `medal` is looked for
apply_filters_medal_only(f, selected_countries, selected_sports, selected_medals) ==
  LET f0 == Copy(f)
      f1 == IF selected_countries # {} /\ "country_code" \in f0.cols
            THEN IsinFilter(f0, "country_code", selected_countries) ELSE f0
      f2 == IF selected_sports # {} /\ "sport" \in f1.cols
            THEN IsinFilter(f1, "sport", selected_sports) ELSE f1
      medal_col == IF "medal" \in f2.cols THEN "medal" ELSE None
  IN IF selected_medals # {} /\ medal_col # None
     THEN IsinFilter(f2, medal_col, selected_medals) ELSE f2

\* mutant: the column-presence guards are dropped
apply_filters_unguarded(f, selected_countries, selected_sports, selected_medals) ==
  LET f0 == Copy(f)
      f1 == IF selected_countries # {}
            THEN IsinFilter(f0, "country_code", selected_countries) ELSE f0
      f2 == IF selected_sports # {}
            THEN IsinFilter(f1, "sport", selected_sports) ELSE f1
      medal_col == IF "medal_type" \in f2.cols THEN "medal_type" ELSE "medal"
  IN IF selected_medals # {}
     THEN IsinFilter(f2, medal_col, selected_medals) ELSE f2

\* mutant: the table is filtered without taking a copy first
apply_filters_no_copy(f, selected_countries, selected_sports, selected_medals) ==
  LET f1 == IF selected_countries # {} /\ "country_code" \in f.cols
            THEN IsinFilter(f, "country_code", selected_countries) ELSE f
      f2 == IF selected_sports # {} /\ "sport" \in f1.cols
            THEN IsinFilter(f1, "sport", selected_sports) ELSE f1
      medal_col == IF "medal_type" \in f2.cols THEN "medal_type"
                   ELSE IF "medal" \in f2.cols THEN "medal" ELSE None
  IN IF selected_medals # {} /\ medal_col # None
     THEN IsinFilter(f2, medal_col, selected_medals) ELSE f2

\* mutant: a filter step fails on a table that has no row left
apply_filters_raise_empty(f, selected_countries, selected_sports, selected_medals) ==
  LET f0 == Copy(f)
      f1 == IF selected_countries # {} /\ "country_code" \in f0.cols
            THEN IsinFilter(f0, "country_code", selected_countries) ELSE f0
      f2 == IF selected_sports # {} /\ "sport" \in f1.cols
            THEN (IF f1.rows = <<>> THEN KeyError
                  ELSE IsinFilter(f1, "sport", selected_sports))
            ELSE f1
      medal_col == IF "medal_type" \in f2.cols THEN "medal_type"
                   ELSE IF "medal" \in f2.cols THEN "medal" ELSE None
  IN IF selected_medals # {} /\ medal_col # None
     THEN (IF f2.rows = <<>> THEN KeyError
           ELSE IsinFilter(f2, medal_col, selected_medals))
     ELSE f2

\* mutant: the rows that pass come back in reverse order
apply_filters_reversed(f, selected_countries, selected_sports, selected_medals) ==
  LET kept == SelectSeq(f.rows, LAMBDA r :
                /\ (selected_countries # {} /\ "country_code" \in f.cols)
                     => r["country_code"] \in selected_countries
                /\ (selected_sports # {} /\ "sport" \in f.cols)
                     => r["sport"] \in selected_sports
                /\ (selected_medals # {} /\ "medal_type" \in f.cols)
                     => r["medal_type"] \in selected_medals
                /\ (selected_medals # {} /\ "medal_type" \notin f.cols
                    /\ "medal" \in f.cols)
                     => r["medal"] \in selected_medals)
  IN [Copy(f) EXCEPT !.rows = [i \in 1..Len(kept) |-> kept[Len(kept) + 1 - i]]]

\* mutant: the first row of the filtered table is sliced off
apply_filters_slice(f, selected_countries, selected_sports, selected_medals) ==
  LET f0 == Copy(f)
      f1 == IF selected_countries # {} /\ "country_code" \in f0.cols
            THEN IsinFilter(f0, "country_code", selected_countries) ELSE f0
      f2 == IF selected_sports # {} /\ "sport" \in f1.cols
            THEN IsinFilter(f1, "sport", selected_sports) ELSE f1
      medal_col == IF "medal_type" \in f2.cols THEN "medal_type"
                   ELSE IF "medal" \in f2.cols THEN "medal" ELSE None
      f3 == IF selected_medals # {} /\ medal_col # None
            THEN IsinFilter(f2, medal_col, selected_medals) ELSE f2
  IN IF f3.rows = <<>> THEN f3 ELSE [f3 EXCEPT !.rows = Tail(f3.rows)]

apply_filters(f, selected_countries, selected_sports, selected_medals) ==
  LET f0 == Copy(f)
      f1 == IF selected_countries # {} /\ "country_code" \in f0.cols
            THEN IsinFilter(f0, "country_code", selected_countries) ELSE f0
      f2 == IF selected_sports # {} /\ "sport" \in f1.cols
            THEN IsinFilter(f1, "sport", selected_sports) ELSE f1
      medal_col == IF "medal_type" \in f2.cols THEN "medal_type"
                   ELSE IF "medal" \in f2.cols THEN "medal" ELSE None
  IN IF selected_medals # {} /\ medal_col # None
     THEN IsinFilter(f2, medal_col, selected_medals) ELSE f2

(***************************************************************************)
(* Specification of apply_filters as a called function                     *)
(***************************************************************************)
FilterArgs ==
  [countries : SUBSET CountryCodes, sports : SUBSET SportNames,
   medals : SUBSET MedalLabels]

NoArgs == [countries |-> {}, sports |-> {}, medals |-> {}, called |-> FALSE]

Called(a) == [countries |-> a.countries, sports |-> a.sports,
              medals |-> a.medals, called |-> TRUE]

NoFrame == Frame({}, <<>>)

NoData == [medals |-> NoFrame]

\* data/venue_coordinates.csv before anything wrote it
NoFile == [exists |-> FALSE, table |-> NoFrame]

\* no geocoder request made yet
NoCalls == [v \in VenueNames |-> 0]

\* the Sports and Events page has not drawn its venue map
NoVenueMap == [message |-> None, venues |-> <<>>]

NoFilters == [countries |-> {}, sports |-> {}, genders |-> {},
              medals |-> {}, continents |-> {}]

\* a name no statement has assigned yet: reading it raises NameError
Unbound == [bound |-> FALSE, rows |-> <<>>]

\* the standings chart and the Most Medals Won insight before the Overview
\* page has run
NoInsights == [top_countries |-> Unbound, chart |-> None, insight |-> None,
               leader |-> None, raised |-> FALSE]

NoView == [page |-> None, raised |-> FALSE, medals_df |-> NoFrame,
           medals_total_df |-> NoFrame, athletes_df |-> NoFrame,
           events_df |-> NoFrame, schedules_df |-> NoFrame,
           insights |-> NoInsights]

InitFilters ==
  /\ df \in FramesOver(FilterSchemas, MaxRows)
  /\ args = NoArgs
  /\ res = NoFrame
  /\ chained = FALSE
  /\ data = NoData
  /\ filters = NoFilters
  /\ view = NoView
  /\ code = None
  /\ continent = None
  /\ lookups = [c \in {} |-> 0]
  /\ colname = None
  /\ coords_file = NoFile
  /\ geocode_calls = NoCalls
  /\ venues_mapped = NoVenueMap

\* result = apply_filters(table, ...) on the table at hand
CallApplyFilters ==
  \E a \in FilterArgs :
    /\ args' = Called(a)
    /\ res' = apply_filters(df, a.countries, a.sports, a.medals)
    /\ chained' = FALSE
    /\ UNCHANGED <<df, data, filters, view, classVars, venueVars>>

\* a successive call: apply_filters is applied to the previous result
CallApplyFiltersOnResult ==
  \E a \in FilterArgs :
    /\ args.called
    /\ ~res.raised
    /\ df' = res
    /\ args' = Called(a)
    /\ res' = apply_filters(res, a.countries, a.sports, a.medals)
    /\ chained' = TRUE
    /\ UNCHANGED <<data, filters, view, classVars, venueVars>>

NextFilters == CallApplyFilters \/ CallApplyFiltersOnResult

SpecFilters == InitFilters /\ [][NextFilters]_vars

(***************************************************************************)
(* Country classifier and continent annotation (utils.py)                  *)
(***************************************************************************)
special_codes ==
  [ROC |-> "Europe", AIN |-> "Europe", EOR |-> "Unknown", IOP |-> "Unknown"]

\* pycountry_convert reference data for the codes of the model; Timor-Leste
\* has a 2-letter code and no continent entry
Alpha3ToAlpha2 == [FRA |-> "FR", JPN |-> "JP", TLS |-> "TL"]

Alpha2ToContinentCode == [FR |-> "EU", JP |-> "AS"]

ContinentName == [EU |-> "Europe", AS |-> "Asia"]

\* the exception a failed pycountry_convert lookup raises
LookupError == "KeyError"

\* what the classifier is called with: missing, blank, the four pseudo-codes,
\* two of them in another case, ISO codes, an unassigned code
ClassifierInputs ==
  {NaN, "", "ROC", "AIN", "EOR", "IOP", "roc", "Ain", "FRA", "JPN", "TLS", "ZZZ"}

ContinentLabels == {"Europe", "Asia", "Unknown"}

\* str.upper() on the classifier's inputs
Upper(c) == IF c = "roc" THEN "ROC" ELSE IF c = "Ain" THEN "AIN" ELSE c

\* mutant: the continent code is returned without the conversion to a name
continent_lookup_code(country_code) ==
  IF country_code \notin DOMAIN Alpha3ToAlpha2 THEN LookupError
  ELSE LET country_alpha2 == Alpha3ToAlpha2[country_code]
       IN IF country_alpha2 \notin DOMAIN Alpha2ToContinentCode THEN LookupError
          ELSE Alpha2ToContinentCode[country_alpha2]

\* the three pycountry_convert conversions; LookupError when one of them fails
continent_lookup(country_code) ==
  IF country_code \notin DOMAIN Alpha3ToAlpha2 THEN LookupError
  ELSE LET country_alpha2 == Alpha3ToAlpha2[country_code]
       IN IF country_alpha2 \notin DOMAIN Alpha2ToContinentCode THEN LookupError
          ELSE LET continent_code == Alpha2ToContinentCode[country_alpha2]
               IN IF continent_code \notin DOMAIN ContinentName THEN LookupError
                  ELSE ContinentName[continent_code]

\* mutant: the special-case table is not consulted
get_continent_no_special(country_code) ==
  IF country_code = NaN \/ country_code = "" THEN "Unknown"
  ELSE LET continent_name == continent_lookup(country_code)
       IN IF continent_name = LookupError THEN "Unknown" ELSE continent_name

\* mutant: no try/except around the lookups
get_continent_uncaught(country_code) ==
  IF country_code = NaN \/ country_code = "" THEN "Unknown"
  ELSE IF country_code \in DOMAIN special_codes THEN special_codes[country_code]
  ELSE continent_lookup(country_code)

\* mutant: the special-case table is matched on the upper-cased code
get_continent_any_case(country_code) ==
  IF country_code = NaN \/ country_code = "" THEN "Unknown"
  ELSE IF Upper(country_code) \in DOMAIN special_codes
  THEN special_codes[Upper(country_code)]
  ELSE LET continent_name == continent_lookup(country_code)
       IN IF continent_name = LookupError THEN "Unknown" ELSE continent_name

get_continent_from_country_code(country_code) ==
  IF country_code = NaN \/ country_code = "" THEN "Unknown"
  ELSE IF country_code \in DOMAIN special_codes THEN special_codes[country_code]
  ELSE LET continent_name == continent_lookup(country_code)
       IN IF continent_name = LookupError THEN "Unknown" ELSE continent_name

\* the reference-data lookups one call makes: one whenever the call gets to
\* the conversions, the function keeps no cache
reference_calls(country_code) ==
  IF country_code = NaN \/ country_code = "" THEN 0
  ELSE IF country_code \in DOMAIN special_codes THEN 0
  ELSE 1

\* df[col] = series : the column is added, or overwritten, row by row
SetColumn(f, col, series) ==
  IF f.raised THEN f
  ELSE [cols |-> f.cols \cup {col},
        rows |-> [i \in 1..Len(f.rows) |->
                    [c \in f.cols \cup {col} |->
                       IF c = col THEN series[i] ELSE f.rows[i][c]]],
        raised |-> FALSE,
        origin |-> f.origin]

\* mutant: every row gets "Unknown", the classifier is not applied
add_continent_column_unknown(f, country_col) ==
  SetColumn(f, "continent", [i \in 1..Len(f.rows) |-> "Unknown"])

\* mutant: the named column is read without the test for its presence
add_continent_column_unguarded(f, country_col) ==
  IF country_col \notin f.cols THEN KeyError
  ELSE SetColumn(f, "continent",
                 [i \in 1..Len(f.rows) |->
                    get_continent_from_country_code(f.rows[i][country_col])])

add_continent_column(f, country_col) ==
  IF country_col \in f.cols
  THEN SetColumn(f, "continent",
                 [i \in 1..Len(f.rows) |->
                    get_continent_from_country_code(f.rows[i][country_col])])
  ELSE SetColumn(f, "continent", [i \in 1..Len(f.rows) |-> "Unknown"])

\* calls of the classifier, one country code at a time
InitClassify ==
  /\ df = NoFrame
  /\ args = NoArgs
  /\ res = NoFrame
  /\ chained = FALSE
  /\ data = NoData
  /\ filters = NoFilters
  /\ view = NoView
  /\ code = None
  /\ continent = None
  /\ lookups = [c \in ClassifierInputs |-> 0]
  /\ colname = None
  /\ coords_file = NoFile
  /\ geocode_calls = NoCalls
  /\ venues_mapped = NoVenueMap

CallClassify ==
  \E country_code \in ClassifierInputs :
    /\ lookups[country_code] + reference_calls(country_code) <= MaxLookups
    /\ code' = country_code
    /\ continent' = get_continent_from_country_code(country_code)
    /\ lookups' = [lookups EXCEPT ![country_code] = @ + reference_calls(country_code)]
    /\ UNCHANGED <<df, args, res, chained, data, filters, view, colname, venueVars>>

NextClassify == CallClassify

SpecClassify == InitClassify /\ [][NextClassify]_vars

(***************************************************************************)
(* Loaded tables (utils.load_data) and the sidebar                         *)
(***************************************************************************)
\* column layouts of the loaded medals table
MedalSchemas ==
  { {"country_code", "discipline", "gender", "medal_type"},
    {"discipline", "gender", "medal_type"},
    {"country_code", "gender", "medal_type"},
    {"country_code", "discipline", "medal_type"},
    {"country_code", "discipline", "gender"} }

LoadedMedalsTotal ==
  Frame({"country_code", "Total"},
        << [country_code |-> "FRA", Total |-> "2"],
           [country_code |-> "JPN", Total |-> "1"] >>)

LoadedAthletes ==
  Frame({"name", "country_code", "gender", "disciplines", "birth_date"},
        << [name |-> "A", country_code |-> "FRA", gender |-> "Male",
            disciplines |-> "['Volleyball']", birth_date |-> "2000-01-01"],
           [name |-> "B", country_code |-> "JPN", gender |-> "Female",
            disciplines |-> "['Beach Volleyball']", birth_date |-> "unknown"] >>)

LoadedEvents ==
  Frame({"event", "sport"},
        << [event |-> "Men", sport |-> "Volleyball"],
           [event |-> "Women", sport |-> "Volleyball"] >>)

LoadedSchedules ==
  Frame({"event", "discipline", "gender"},
        << [event |-> "Men", discipline |-> "Volleyball", gender |-> "M"],
           [event |-> "Women", discipline |-> "Beach Volleyball", gender |-> "W"] >>)

LoadedVenues ==
  Frame({"venue"}, << [venue |-> "Stade de France"], [venue |-> "Arena X"] >>)

LoadedNocs ==
  Frame({"code", "country_code"}, << [code |-> "FRA", country_code |-> "FRA"] >>)

\* the dict load_data returns for a medal table, a medal-totals table and a
\* NOC table
LoadedData(medals, medals_total, nocs) ==
  [medals |-> Named("medals", medals),
   medals_total |-> Named("medals_total", medals_total),
   athletes |-> Named("athletes", LoadedAthletes),
   events |-> Named("events", LoadedEvents),
   schedules |-> Named("schedules", LoadedSchedules),
   venues |-> Named("venues", LoadedVenues),
   nocs |-> Named("nocs", nocs)]

\* the dicts load_data returns when the medal table has one of the layouts
DatasetsOver(schemas) ==
  {LoadedData(m, LoadedMedalsTotal, LoadedNocs) :
     m \in FramesOver(schemas, MaxMedalRows)}

\* the tables over the layouts whose column c holds values of cells[c]
FramesWith(schemas, cells, n) ==
  UNION {{Frame(cols, rows) :
            rows \in SeqsUpTo({r \in [cols -> UNION {cells[c] : c \in cols}] :
                                 \A c \in cols : r[c] \in cells[c]}, n)} :
         cols \in schemas}

\* the dict returned by load_data
Datasets == DatasetsOver(MedalSchemas)

\* medal layouts with the gender column, one without the discipline and one
\* without the country code
SharedSchemas ==
  { {"country_code", "gender", "medal_type"},
    {"discipline", "gender", "medal_type"} }

\* df[col].dropna().unique()
UniqueValues(f, col) == {f.rows[i][col] : i \in 1..Len(f.rows)} \ {NaN}

\* lowercased text of a medal value contains gold, silver or bronze
IsMedalWord(v) == v \in {"Gold Medal", "Silver Medal", "Bronze Medal"}

\* mutant: the medal values are drawn from `medal` when the table has it
SidebarOptions_medal_first(d) ==
  [continents |->
     IF "country_code" \in d.nocs.cols
     THEN UniqueValues(add_continent_column(Copy(d.nocs), "country_code"),
                       "continent") \ {"Unknown"}
     ELSE {},
   countries |->
     LET country_df == IF "country_code" \in d.nocs.cols THEN d.nocs ELSE d.athletes
     IN IF "country_code" \in country_df.cols
        THEN UniqueValues(country_df, "country_code") ELSE {},
   sports |->
     IF "sport" \in d.events.cols
     THEN UniqueValues(d.events, "sport") ELSE {},
   genders |->
     IF "gender" \in d.athletes.cols THEN UniqueValues(d.athletes, "gender") ELSE {},
   medals |->
     LET medal_col == IF "medal" \in d.medals.cols THEN "medal" ELSE "medal_type"
     IN IF medal_col \in d.medals.cols
        THEN {v \in UniqueValues(d.medals, medal_col) : IsMedalWord(v)} ELSE {}]

\* mutant: "Unknown" is offered among the continents
SidebarOptions_with_unknown(d) ==
  [continents |->
     IF "country_code" \in d.nocs.cols
     THEN UniqueValues(add_continent_column(Copy(d.nocs), "country_code"),
                       "continent")
     ELSE {},
   countries |->
     LET country_df == IF "country_code" \in d.nocs.cols THEN d.nocs ELSE d.athletes
     IN IF "country_code" \in country_df.cols
        THEN UniqueValues(country_df, "country_code") ELSE {},
   sports |->
     IF "sport" \in d.events.cols
     THEN UniqueValues(d.events, "sport") ELSE {},
   genders |->
     IF "gender" \in d.athletes.cols THEN UniqueValues(d.athletes, "gender") ELSE {},
   medals |->
     LET medal_col == IF "medal_type" \in d.medals.cols THEN "medal_type" ELSE "medal"
     IN IF medal_col \in d.medals.cols
        THEN {v \in UniqueValues(d.medals, medal_col) : IsMedalWord(v)} ELSE {}]

\* the options create_sidebar_filters offers for each of the five widgets
SidebarOptions(d) ==
  [continents |->
     IF "country_code" \in d.nocs.cols
     THEN UniqueValues(add_continent_column(Copy(d.nocs), "country_code"),
                       "continent") \ {"Unknown"}
     ELSE {},
   countries |->
     LET country_df == IF "country_code" \in d.nocs.cols THEN d.nocs ELSE d.athletes
     IN IF "country_code" \in country_df.cols
        THEN UniqueValues(country_df, "country_code") ELSE {},
   sports |->
     IF "sport" \in d.events.cols
     THEN UniqueValues(d.events, "sport") ELSE {},
   genders |->
     IF "gender" \in d.athletes.cols THEN UniqueValues(d.athletes, "gender") ELSE {},
   medals |->
     LET medal_col == IF "medal_type" \in d.medals.cols THEN "medal_type" ELSE "medal"
     IN IF medal_col \in d.medals.cols
        THEN {v \in UniqueValues(d.medals, medal_col) : IsMedalWord(v)} ELSE {}]

\* mutant: the medal checkboxes start unchecked
DefaultFilters_unchecked(d) ==
  [countries |-> {}, sports |-> {}, genders |-> {},
   medals |-> {}, continents |-> {}]

\* widget state before any interaction: multiselects empty, checkboxes checked
DefaultFilters(d) ==
  [countries |-> {}, sports |-> {}, genders |-> {},
   medals |-> SidebarOptions(d).medals, continents |-> {}]

FilterFields == {"countries", "sports", "genders", "medals", "continents"}

\* the widget states one user interaction away from sel
Toggles(d, sel) ==
  LET options == SidebarOptions(d)
  IN UNION {{[sel EXCEPT ![k] = IF o \in sel[k] THEN sel[k] \ {o} ELSE sel[k] \cup {o}] :
               o \in options[k]} : k \in FilterFields}

(***************************************************************************)
(* Filter blocks of the four pages                                         *)
(***************************************************************************)
gender_map(g) == IF g = "M" THEN "Male" ELSE IF g = "W" THEN "Female" ELSE NaN

\* df[col].map(gender_map).fillna(df[col])
gender_display(g) == IF gender_map(g) = NaN THEN g ELSE gender_map(g)

\* the pairs <<text, pattern>> of the model's strings in which the pattern
\* occurs inside the text
SubstringPairs ==
  { <<"['Volleyball']", "Volleyball">>,
    <<"['Beach Volleyball']", "Volleyball">>,
    <<"['Beach Volleyball']", "Beach Volleyball">>,
    <<"Beach Volleyball", "Volleyball">> }

StrContains(text, pat) == text = pat \/ <<text, pat>> \in SubstringPairs

\* df[df[col].str.contains('|'.join(sel), na=False)] : KeyError when absent
ContainsFilter(f, col, sel) ==
  IF f.raised THEN f
  ELSE IF col \notin f.cols THEN KeyError
  ELSE [f EXCEPT !.rows =
          SelectSeq(f.rows, LAMBDA r : \E s \in sel : StrContains(r[col], s)),
                 !.origin = None]

\* the tables of d after the in-place column assignments of one script run:
\* an assignment to an object of d is seen in d, the last one standing
Store(d, written) ==
  LET hits == {i \in 1..Len(written) :
                 ~written[i].raised /\ written[i].origin \in DOMAIN d}
      last(n) == CHOOSE i \in hits :
                   /\ written[i].origin = n
                   /\ \A j \in hits : written[j].origin = n => j <= i
  IN IF hits = {} THEN d
     ELSE [n \in DOMAIN d |->
             IF \E i \in hits : written[i].origin = n THEN written[last(n)] ELSE d[n]]

\* create_sidebar_filters: the annotated copy of the NOC table
nocs_with_continent(d) ==
  IF "country_code" \in d.nocs.cols
  THEN add_continent_column(Copy(d.nocs), "country_code")
  ELSE NoFrame

\* pd.to_datetime(text, errors='coerce') on the birth dates of the model:
\* a timestamp, NaT for text that is no date
to_datetime(text) ==
  IF text = "2000-01-01" THEN "2000-01-01 00:00:00" ELSE "NaT"

\* Series.dt.year of the model's timestamps
dt_year == [t \in {"2000-01-01 00:00:00"} |-> 2000]

\* 2024 - birth_date.dt.year, missing when the date is
age_of(date) == IF date = "NaT" THEN NaN ELSE ToString(2024 - dt_year[date])

\* geolocator.geocode: latitude and longitude of the location the service
\* answers for a venue, a pair of None when it finds nothing
geocode(venue_name) ==
  IF venue_name = "Stade de France" THEN <<"48.9245", "2.3602">>
  ELSE IF venue_name = "Grand Palais" THEN <<"48.8661", "2.3125">>
  ELSE <<None, None>>

\* get_coords: latitude and longitude of a venue, a pair of None when the
\* service finds nothing or the request fails; located holds the venues whose
\* request gets through
get_coords(venue_name, located) ==
  IF venue_name \in located THEN geocode(venue_name) ELSE <<None, None>>

\* to_csv: a missing value is written as an empty field
to_csv(f) ==
  [exists |-> TRUE,
   table |-> Frame(f.cols,
                   [i \in 1..Len(f.rows) |->
                      [c \in f.cols |->
                         IF f.rows[i][c] \in {None, NaN} THEN "" ELSE f.rows[i][c]]])]

\* read_csv: an empty field is read as NaN
read_csv(file) ==
  Frame(file.table.cols,
        [i \in 1..Len(file.table.rows) |->
           [c \in file.table.cols |->
              IF file.table.rows[i][c] = "" THEN NaN ELSE file.table.rows[i][c]]])

\* venues_df.merge(coords_df, on="venue", how="left", suffixes=('', '_coord'))
\* followed by the rename: the coordinates of the left table when it has them,
\* else those of the entry of coords_df for the venue, NaN without an entry
merge_coords(venues_df, coords_df) ==
  LET entry(v) == {j \in 1..Len(coords_df.rows) : coords_df.rows[j]["venue"] = v}
      cell(i, col) ==
        IF col \in venues_df.cols THEN venues_df.rows[i][col]
        ELSE IF entry(venues_df.rows[i]["venue"]) = {} THEN NaN
        ELSE coords_df.rows[CHOOSE j \in entry(venues_df.rows[i]["venue"]) : TRUE][col]
  IN SetColumn(SetColumn(venues_df, "latitude_x",
                         [i \in 1..Len(venues_df.rows) |-> cell(i, "latitude_x")]),
               "longitude_x",
               [i \in 1..Len(venues_df.rows) |-> cell(i, "longitude_x")])

\* dropna(subset=['latitude_x', 'longitude_x'])
dropna(f) ==
  [f EXCEPT !.rows = SelectSeq(f.rows, LAMBDA r : /\ r["latitude_x"] \notin {None, NaN}
                                                  /\ r["longitude_x"] \notin {None, NaN}),
            !.origin = None]

\* f[[...]] : the columns of cols only
Columns(f, cols) ==
  [f EXCEPT !.cols = cols,
            !.rows = [i \in 1..Len(f.rows) |-> [c \in cols |-> f.rows[i][c]]],
            !.origin = None]

\* mutant: the venues are geocoded again while some entry of the file is empty
VenueMap_retry(venues_df, file, located) ==
  LET cached == /\ file.exists
                /\ \A i \in 1..Len(file.table.rows) :
                      file.table.rows[i]["latitude_x"] # ""
      v1 == IF cached THEN venues_df
            ELSE SetColumn(venues_df, "latitude_x",
                           [i \in 1..Len(venues_df.rows) |->
                              get_coords(venues_df.rows[i]["venue"], located)[1]])
      v2 == IF cached THEN venues_df
            ELSE SetColumn(v1, "longitude_x",
                           [i \in 1..Len(v1.rows) |->
                              get_coords(v1.rows[i]["venue"], located)[2]])
      coords_df == IF cached THEN read_csv(file)
                   ELSE Copy(Columns(v2, {"venue", "latitude_x", "longitude_x"}))
      venues_with_coords == merge_coords(v2, coords_df)
  IN [file |-> IF cached THEN file ELSE to_csv(coords_df),
      geocoded |-> IF cached THEN <<>>
                   ELSE [i \in 1..Len(venues_df.rows) |-> venues_df.rows[i]["venue"]],
      map |-> [message |-> IF cached THEN "Using cached venue coordinates"
                           ELSE "Geocoding venues",
               venues |-> [i \in 1..Len(dropna(venues_with_coords).rows) |->
                             dropna(venues_with_coords).rows[i]["venue"]]],
      written |-> <<v1, v2>>]

\* the venue map of pages/4_Sports_and_Events.py: the file the run leaves, the
\* venues it sent to the geocoder in order, the map it shows and the frames it
\* wrote to
VenueMap(venues_df, file, located) ==
  LET cached == file.exists
      v1 == IF cached THEN venues_df
            ELSE SetColumn(venues_df, "latitude_x",
                           [i \in 1..Len(venues_df.rows) |->
                              get_coords(venues_df.rows[i]["venue"], located)[1]])
      v2 == IF cached THEN venues_df
            ELSE SetColumn(v1, "longitude_x",
                           [i \in 1..Len(v1.rows) |->
                              get_coords(v1.rows[i]["venue"], located)[2]])
      coords_df == IF cached THEN read_csv(file)
                   ELSE Copy(Columns(v2, {"venue", "latitude_x", "longitude_x"}))
      venues_with_coords == merge_coords(v2, coords_df)
  IN [file |-> IF cached THEN file ELSE to_csv(coords_df),
      geocoded |-> IF cached THEN <<>>
                   ELSE [i \in 1..Len(venues_df.rows) |-> venues_df.rows[i]["venue"]],
      map |-> [message |-> IF cached THEN "Using cached venue coordinates"
                           ELSE "Geocoding venues",
               venues |-> [i \in 1..Len(dropna(venues_with_coords).rows) |->
                             dropna(venues_with_coords).rows[i]["venue"]]],
      written |-> <<v1, v2>>]

\* what a script run leaves: the narrowed tables, or nothing once a KeyError
\* has ended the run
PageView(page, medals_df, medals_total_df, athletes_df, events_df, schedules_df) ==
  IF \/ medals_df.raised \/ medals_total_df.raised \/ athletes_df.raised
     \/ events_df.raised \/ schedules_df.raised
  THEN [NoView EXCEPT !.page = page, !.raised = TRUE]
  ELSE [page |-> page, raised |-> FALSE, medals_df |-> medals_df,
        medals_total_df |-> medals_total_df, athletes_df |-> athletes_df,
        events_df |-> events_df, schedules_df |-> schedules_df,
        insights |-> NoInsights]

\* the number a medal count cell holds
Number(x) ==
  IF x \in {"1", "2", "3"} THEN CHOOSE n \in 1..3 : ToString(n) = x ELSE 0

\* rows shown by the standings chart
TopN == 10

\* f.nlargest(n, col): the n rows with the largest col, largest first, rows
\* with equal values in their order in f
nlargest(f, n, col) ==
  LET before(i) ==
        Cardinality({j \in 1..Len(f.rows) :
                       \/ Number(f.rows[j][col]) > Number(f.rows[i][col])
                       \/ /\ Number(f.rows[j][col]) = Number(f.rows[i][col])
                          /\ j < i})
      m == IF Len(f.rows) < n THEN Len(f.rows) ELSE n
  IN [f EXCEPT !.rows = [k \in 1..m |->
                           f.rows[CHOOSE i \in 1..Len(f.rows) : before(i) = k - 1]],
               !.origin = None]

\* medals_total_df.get(col, 0) of row i
GetOrZero(f, i, col) == IF col \in f.cols THEN Number(f.rows[i][col]) ELSE 0

\* mutant: the insight reads top_countries outside any try block
OverviewInsights_no_try(medals_total_df) ==
  LET totals ==
        IF Len(medals_total_df.rows) > 0 /\ "Total" \notin medals_total_df.cols
        THEN SetColumn(medals_total_df, "Total",
                       [i \in 1..Len(medals_total_df.rows) |->
                          ToString(GetOrZero(medals_total_df, i, "Gold")
                                   + GetOrZero(medals_total_df, i, "Silver")
                                   + GetOrZero(medals_total_df, i, "Bronze"))])
        ELSE medals_total_df
      top_countries ==
        IF Len(medals_total_df.rows) > 0
        THEN [bound |-> TRUE, rows |-> nlargest(totals, TopN, "Total").rows]
        ELSE Unbound
      first == top_countries.rows[1]
  IN [medals_total_df |-> totals,
      top_countries |-> top_countries,
      chart |-> IF Len(medals_total_df.rows) = 0
                THEN "No medal total data available with current filters"
                ELSE IF Len(top_countries.rows) > 0 THEN "Medal Count Rankings"
                ELSE "No countries found with current filters",
      insight |-> IF ~top_countries.bound THEN None
                  ELSE IF Len(top_countries.rows) > 0 THEN "Most Medals Won"
                  ELSE "No data available with current filters",
      leader |-> IF ~top_countries.bound \/ Len(top_countries.rows) = 0 THEN None
                 ELSE IF "country" \in DOMAIN first THEN first["country"]
                 ELSE IF "country_code" \in DOMAIN first THEN first["country_code"]
                 ELSE "N/A",
      raised |-> ~top_countries.bound]

\* the Top 10 Countries chart and the Most Medals Won insight of 1_Overview.py:
\* top_countries is assigned only under `len(medals_total_df) > 0`; the insight
\* reads it inside try, and the bare except turns the NameError of an
\* unassigned top_countries into a warning
OverviewInsights(medals_total_df) ==
  LET totals ==
        IF Len(medals_total_df.rows) > 0 /\ "Total" \notin medals_total_df.cols
        THEN SetColumn(medals_total_df, "Total",
                       [i \in 1..Len(medals_total_df.rows) |->
                          ToString(GetOrZero(medals_total_df, i, "Gold")
                                   + GetOrZero(medals_total_df, i, "Silver")
                                   + GetOrZero(medals_total_df, i, "Bronze"))])
        ELSE medals_total_df
      top_countries ==
        IF Len(medals_total_df.rows) > 0
        THEN [bound |-> TRUE, rows |-> nlargest(totals, TopN, "Total").rows]
        ELSE Unbound
      first == top_countries.rows[1]
  IN [medals_total_df |-> totals,
      top_countries |-> top_countries,
      chart |-> IF Len(medals_total_df.rows) = 0
                THEN "No medal total data available with current filters"
                ELSE IF Len(top_countries.rows) > 0 THEN "Medal Count Rankings"
                ELSE "No countries found with current filters",
      insight |-> IF ~top_countries.bound
                  THEN "No medal data available with current filters"
                  ELSE IF Len(top_countries.rows) > 0 THEN "Most Medals Won"
                  ELSE "No data available with current filters",
      leader |-> IF ~top_countries.bound \/ Len(top_countries.rows) = 0 THEN None
                 ELSE IF "country" \in DOMAIN first THEN first["country"]
                 ELSE IF "country_code" \in DOMAIN first THEN first["country_code"]
                 ELSE "N/A",
      raised |-> FALSE]

\* 1_Overview.py: the view the run leaves and the tables it assigned into
OverviewRun(d, f) ==
  LET medal_col == IF "medal_type" \in d.medals.cols THEN "medal_type" ELSE "medal"
      mt0 == add_continent_column(Copy(d.medals_total), "country_code")
      m0 == Copy(d.medals)
      a0 == Copy(d.athletes)
      e0 == Copy(d.events)
      m1 == IF f.countries # {} /\ "country_code" \in m0.cols
            THEN IsinFilter(m0, "country_code", f.countries) ELSE m0
      a1 == IF f.countries # {} /\ "country_code" \in a0.cols
            THEN IsinFilter(a0, "country_code", f.countries) ELSE a0
      mt1 == IF f.countries # {} /\ "country_code" \in mt0.cols
             THEN IsinFilter(mt0, "country_code", f.countries) ELSE mt0
      e1 == IF f.sports # {} /\ "sport" \in e0.cols
            THEN IsinFilter(e0, "sport", f.sports) ELSE e0
      sport_col == IF "discipline" \in m1.cols THEN "discipline" ELSE "sport"
      m2 == IF f.sports # {} /\ sport_col \in m1.cols
            THEN IsinFilter(m1, sport_col, f.sports) ELSE m1
      m3 == IF "gender" \in m2.cols
            THEN SetColumn(m2, "gender",
                           [i \in 1..Len(m2.rows) |-> gender_map(m2.rows[i]["gender"])])
            ELSE m2
      a2 == IF f.genders # {} /\ "gender" \in a1.cols
            THEN IsinFilter(a1, "gender", f.genders) ELSE a1
      m4 == IF f.genders # {} /\ "gender" \in m3.cols
            THEN IsinFilter(m3, "gender", f.genders) ELSE m3
      mt2 == IF f.continents # {} /\ "continent" \in mt1.cols
             THEN IsinFilter(mt1, "continent", f.continents) ELSE mt1
      m5 == IF f.medals # {} /\ medal_col \in m4.cols
            THEN IsinFilter(m4, medal_col, f.medals) ELSE m4
      shown == OverviewInsights(mt2)
  IN [view |-> IF shown.raised THEN [NoView EXCEPT !.page = "Overview", !.raised = TRUE]
               ELSE [PageView("Overview", m5, shown.medals_total_df, a2, e1, NoFrame)
                       EXCEPT !.insights = [k \in DOMAIN NoInsights |-> shown[k]]],
      written |-> <<nocs_with_continent(d), mt0, m3, shown.medals_total_df>>]

OverviewPage(d, f) == OverviewRun(d, f).view

\* pages/2_Global_Analysis.py
GlobalAnalysisRun(d, f) ==
  LET mt0 == add_continent_column(Copy(d.medals_total), "country_code")
      m0 == add_continent_column(Copy(d.medals), "country_code")
      m1 == IF "gender" \in m0.cols
            THEN SetColumn(m0, "gender_display",
                           [i \in 1..Len(m0.rows) |->
                              gender_display(m0.rows[i]["gender"])])
            ELSE m0
      mt1 == IF f.countries # {}
             THEN IsinFilter(mt0, "country_code", f.countries) ELSE mt0
      m2 == IF f.countries # {}
            THEN IsinFilter(m1, "country_code", f.countries) ELSE m1
      m3 == IF f.sports # {} THEN IsinFilter(m2, "discipline", f.sports) ELSE m2
      mt2 == IF f.continents # {}
             THEN IsinFilter(mt1, "continent", f.continents) ELSE mt1
      m4 == IF f.continents # {}
            THEN IsinFilter(m3, "continent", f.continents) ELSE m3
      m5 == IF f.genders # {}
            THEN IsinFilter(m4, "gender_display", f.genders) ELSE m4
      m6 == IF f.medals # {} THEN IsinFilter(m5, "medal_type", f.medals) ELSE m5
  IN [view |-> PageView("Global Analysis", m6, mt2, NoFrame, NoFrame, NoFrame),
      written |-> <<nocs_with_continent(d), mt0, m0, m1>>]

GlobalAnalysisPage(d, f) == GlobalAnalysisRun(d, f).view

\* pages/3_Athlete_Performance.py
AthletePerformanceRun(d, f) ==
  LET a0 == add_continent_column(Copy(d.athletes), "country_code")
      m0 == Copy(d.medals)
      a1 == IF f.countries # {}
            THEN IsinFilter(a0, "country_code", f.countries) ELSE a0
      m1 == IF f.countries # {}
            THEN IsinFilter(m0, "country_code", f.countries) ELSE m0
      a2 == IF f.sports # {} THEN ContainsFilter(a1, "disciplines", f.sports) ELSE a1
      a3 == IF "birth_date" \in a2.cols
            THEN SetColumn(a2, "birth_date",
                           [i \in 1..Len(a2.rows) |->
                              to_datetime(a2.rows[i]["birth_date"])])
            ELSE a2
      a4 == IF "birth_date" \in a2.cols
            THEN SetColumn(a3, "age",
                           [i \in 1..Len(a3.rows) |-> age_of(a3.rows[i]["birth_date"])])
            ELSE a3
  IN [view |-> PageView("Athlete Performance", m1, NoFrame, a2, NoFrame, NoFrame),
      written |-> <<nocs_with_continent(d), a0, a3, a4>>]

AthletePerformancePage(d, f) == AthletePerformanceRun(d, f).view

\* pages/4_Sports_and_Events.py; file: data/venue_coordinates.csv as the run
\* finds it; located: the venues whose geocoder request gets through
SportsAndEventsRun(d, f, file, located) ==
  LET MapGender(t) ==
        IF "gender" \in t.cols
        THEN SetColumn(t, "gender",
                       [i \in 1..Len(t.rows) |-> gender_map(t.rows[i]["gender"])])
        ELSE t
      Guarded(t, col, sel) == IF col \in t.cols THEN IsinFilter(t, col, sel) ELSE t
      Annotate(t) ==
        IF "country_code" \in t.cols THEN add_continent_column(t, "country_code") ELSE t
      e0 == MapGender(Copy(d.events))
      s0 == MapGender(Copy(d.schedules))
      m0 == MapGender(Copy(d.medals))
      e1 == IF f.sports # {} THEN IsinFilter(e0, "sport", f.sports) ELSE e0
      s1 == IF f.sports # {} THEN Guarded(s0, "discipline", f.sports) ELSE s0
      m1 == IF f.sports # {} THEN Guarded(m0, "discipline", f.sports) ELSE m0
      e2 == IF f.countries # {} THEN Guarded(e1, "country_code", f.countries) ELSE e1
      s2 == IF f.countries # {} THEN Guarded(s1, "country_code", f.countries) ELSE s1
      m2 == IF f.countries # {}
            THEN IsinFilter(m1, "country_code", f.countries) ELSE m1
      e3 == IF f.genders # {} THEN Guarded(e2, "gender", f.genders) ELSE e2
      s3 == IF f.genders # {} THEN Guarded(s2, "gender", f.genders) ELSE s2
      m3 == IF f.genders # {} THEN IsinFilter(m2, "gender", f.genders) ELSE m2
      m4 == Annotate(m3)
      e4 == Annotate(e3)
      s4 == Annotate(s3)
      m5 == IF f.continents # {} THEN Guarded(m4, "continent", f.continents) ELSE m4
      e5 == IF f.continents # {} THEN Guarded(e4, "continent", f.continents) ELSE e4
      s5 == IF f.continents # {} THEN Guarded(s4, "continent", f.continents) ELSE s4
      m6 == IF f.medals # {} THEN Guarded(m5, "medal_type", f.medals) ELSE m5
      page == PageView("Sports and Events", m6, NoFrame, NoFrame, e5, s5)
      venue_map == VenueMap(Copy(d.venues), file, located)
  IN IF page.raised
     THEN [view |-> page,
           written |-> <<nocs_with_continent(d), e0, s0, m0, m4, e4, s4>>,
           file |-> file, geocoded |-> <<>>, map |-> NoVenueMap]
     ELSE [view |-> page,
           written |-> <<nocs_with_continent(d), e0, s0, m0, m4, e4, s4>>
                         \o venue_map.written,
           file |-> venue_map.file, geocoded |-> venue_map.geocoded,
           map |-> venue_map.map]

SportsAndEventsPage(d, f) == SportsAndEventsRun(d, f, NoFile, {}).view

(***************************************************************************)
(* Specification of the dashboard: script runs of the four pages           *)
(***************************************************************************)
Init ==
  /\ data \in Datasets
  /\ filters = DefaultFilters(data)
  /\ view = NoView
  /\ df = NoFrame
  /\ args = NoArgs
  /\ res = NoFrame
  /\ chained = FALSE
  /\ code = None
  /\ continent = None
  /\ lookups = [c \in {} |-> 0]
  /\ colname = None
  /\ coords_file = NoFile
  /\ geocode_calls = NoCalls
  /\ venues_mapped = NoVenueMap

\* the widget state a run of `page` reads: unchanged when the user navigates
\* to the page, one interaction away when the page is rerun by a widget
Selections(page) ==
  IF view.page = page THEN Toggles(data, filters) ELSE {filters}

RenderOverview ==
  \E sel \in Selections("Overview") :
    \E run \in {OverviewRun(data, sel)} :
       /\ filters' = sel
       /\ view' = run.view
       /\ data' = Store(data, run.written)
       /\ venues_mapped' = NoVenueMap
       /\ UNCHANGED <<df, args, res, chained, classVars, coords_file, geocode_calls>>

RenderGlobalAnalysis ==
  \E sel \in Selections("Global Analysis") :
    \E run \in {GlobalAnalysisRun(data, sel)} :
       /\ filters' = sel
       /\ view' = run.view
       /\ data' = Store(data, run.written)
       /\ venues_mapped' = NoVenueMap
       /\ UNCHANGED <<df, args, res, chained, classVars, coords_file, geocode_calls>>

RenderAthletePerformance ==
  \E sel \in Selections("Athlete Performance") :
    \E run \in {AthletePerformanceRun(data, sel)} :
       /\ filters' = sel
       /\ view' = run.view
       /\ data' = Store(data, run.written)
       /\ venues_mapped' = NoVenueMap
       /\ UNCHANGED <<df, args, res, chained, classVars, coords_file, geocode_calls>>

\* the loaded venues the geocoder has a location for: the only ones for which
\* it matters whether the request gets through
Geocodable(d) ==
  {v \in VenueNames : /\ geocode(v) # <<None, None>>
                      /\ \E i \in 1..Len(d.venues.rows) : d.venues.rows[i]["venue"] = v}

\* the requests counted for each venue after the run sent those of geocoded
Requested(calls, geocoded) ==
  [v \in VenueNames |->
     calls[v] + Cardinality({i \in 1..Len(geocoded) : geocoded[i] = v})]

RenderSportsAndEvents ==
  \E sel \in Selections("Sports and Events"),
     located \in (IF coords_file.exists THEN {{}} ELSE SUBSET Geocodable(data)) :
    \E run \in {SportsAndEventsRun(data, sel, coords_file, located)} :
       /\ \A v \in VenueNames :
            Requested(geocode_calls, run.geocoded)[v] <= MaxGeocodeCalls
       /\ filters' = sel
       /\ view' = run.view
       /\ data' = Store(data, run.written)
       /\ coords_file' = run.file
       /\ geocode_calls' = Requested(geocode_calls, run.geocoded)
       /\ venues_mapped' = run.map
       /\ UNCHANGED <<df, args, res, chained, classVars>>

Next ==
  \/ RenderOverview
  \/ RenderGlobalAnalysis
  \/ RenderAthletePerformance
  \/ RenderSportsAndEvents

Spec == Init /\ [][Next]_vars

\* data/venue_coordinates.csv as an earlier session left it for LoadedVenues
SavedCoordinates == VenueMap(Copy(LoadedVenues), NoFile, VenueNames).file

\* the same script runs over the loaded data of SharedSchemas, the coordinates
\* file being there already
InitShared ==
  /\ data \in DatasetsOver(SharedSchemas)
  /\ filters = DefaultFilters(data)
  /\ view = NoView
  /\ df = NoFrame
  /\ args = NoArgs
  /\ res = NoFrame
  /\ chained = FALSE
  /\ code = None
  /\ continent = None
  /\ lookups = [c \in {} |-> 0]
  /\ colname = None
  /\ coords_file = SavedCoordinates
  /\ geocode_calls = NoCalls
  /\ venues_mapped = NoVenueMap

SpecShared == InitShared /\ [][Next]_vars

\* the same script runs over medal tables that name their medal column
\* either way and hold missing and non-medal values in it
MedalColumnSchemas == { {"medal_type", "medal"}, {"medal"}, {"medal_type"} }

MedalColumnCells ==
  [medal_type |-> {"Gold Medal", "Silver Medal", NaN, "Diploma"},
   medal |-> {"Silver Medal"}]

InitSidebar ==
  /\ data \in {LoadedData(m, LoadedMedalsTotal, LoadedNocs) :
                 m \in FramesWith(MedalColumnSchemas, MedalColumnCells, MaxSidebarRows)}
  /\ filters = DefaultFilters(data)
  /\ view = NoView
  /\ df = NoFrame
  /\ args = NoArgs
  /\ res = NoFrame
  /\ chained = FALSE
  /\ code = None
  /\ continent = None
  /\ lookups = [c \in {} |-> 0]
  /\ colname = None
  /\ coords_file = SavedCoordinates
  /\ geocode_calls = NoCalls
  /\ venues_mapped = NoVenueMap

SpecSidebar == InitSidebar /\ [][Next]_vars

\* the same script runs over tables that hold country codes without a
\* continent: a pseudo-code, an unassigned code, a missing cell
PseudoCodeCells ==
  [country_code |-> {"FRA", "EOR", NaN}, discipline |-> {"Volleyball"},
   gender |-> {"M"}, medal_type |-> {"Gold Medal"}]

PseudoCodeMedalsTotal ==
  Frame({"country_code", "Total"},
        << [country_code |-> "FRA", Total |-> "2"],
           [country_code |-> "EOR", Total |-> "1"],
           [country_code |-> "ZZZ", Total |-> "1"] >>)

PseudoCodeNocs ==
  Frame({"code", "country_code"},
        << [code |-> "FRA", country_code |-> "FRA"],
           [code |-> "EOR", country_code |-> "EOR"] >>)

InitContinents ==
  /\ data \in {LoadedData(m, PseudoCodeMedalsTotal, PseudoCodeNocs) :
                 m \in FramesWith({{"country_code", "discipline", "gender", "medal_type"}},
                                  PseudoCodeCells, MaxSidebarRows)}
  /\ filters = DefaultFilters(data)
  /\ view = NoView
  /\ df = NoFrame
  /\ args = NoArgs
  /\ res = NoFrame
  /\ chained = FALSE
  /\ code = None
  /\ continent = None
  /\ lookups = [c \in {} |-> 0]
  /\ colname = None
  /\ coords_file = SavedCoordinates
  /\ geocode_calls = NoCalls
  /\ venues_mapped = NoVenueMap

SpecContinents == InitContinents /\ [][Next]_vars

\* the same script runs from a deployment without data/venue_coordinates.csv,
\* over venues tables that list each venue once and medal tables of a layout
\* the Sports and Events page renders and of one it raises on
VenueTables ==
  {Frame({"venue"}, rows) :
     rows \in {q \in SeqsUpTo({[venue |-> v] : v \in VenueNames}, MaxVenues) :
                \A i, j \in 1..Len(q) : q[i] = q[j] => i = j}}

VenueMedalCells ==
  [country_code |-> {"FRA"}, discipline |-> {"Volleyball"}, gender |-> {"M"},
   medal_type |-> {"Gold Medal"}]

VenueMedalSchemas ==
  { {"country_code", "discipline", "gender", "medal_type"},
    {"discipline", "gender", "medal_type"} }

InitVenues ==
  /\ data \in {[LoadedData(m, LoadedMedalsTotal, LoadedNocs)
                   EXCEPT !.venues = Named("venues", v)] :
                 m \in FramesWith(VenueMedalSchemas, VenueMedalCells, MaxMedalRows),
                 v \in VenueTables}
  /\ filters = DefaultFilters(data)
  /\ view = NoView
  /\ df = NoFrame
  /\ args = NoArgs
  /\ res = NoFrame
  /\ chained = FALSE
  /\ code = None
  /\ continent = None
  /\ lookups = [c \in {} |-> 0]
  /\ colname = None
  /\ coords_file = NoFile
  /\ geocode_calls = NoCalls
  /\ venues_mapped = NoVenueMap

SpecVenues == InitVenues /\ [][Next]_vars

(***************************************************************************)
(* Specification of add_continent_column as a function called on a table   *)
(***************************************************************************)
\* country cells of the annotated tables: missing, a pseudo-code, an ISO
\* code, an unassigned code
AnnotateCodes == {NaN, "ROC", "FRA", "ZZZ"}

AnnotateSchemas == { {"country_code", "medal_type"}, {"medal_type"} }

AnnotateRows(cols) ==
  {r \in [cols -> AnnotateCodes \cup MedalLabels] :
     \A c \in cols :
       r[c] \in (IF c = "country_code" THEN AnnotateCodes ELSE ColValues(c))}

\* the tables a caller holds in its variable df
AnnotateFrames ==
  UNION {{Named("df", Frame(cols, rows)) :
            rows \in SeqsUpTo(AnnotateRows(cols), MaxRows)} : cols \in AnnotateSchemas}

\* the column names the function is called with
CountryColumns == {"country_code", "country"}

\* reference-data lookups one call makes for the code c: one for each row
\* whose named cell is c
RowLookups(f, country_col, c) ==
  IF country_col \in f.cols
  THEN Cardinality({i \in 1..Len(f.rows) : f.rows[i][country_col] = c})
         * reference_calls(c)
  ELSE 0

InitAnnotate ==
  /\ df \in AnnotateFrames
  /\ args = NoArgs
  /\ res = NoFrame
  /\ chained = FALSE
  /\ data = NoData
  /\ filters = NoFilters
  /\ view = NoView
  /\ code = None
  /\ continent = None
  /\ lookups = [c \in ClassifierInputs |-> 0]
  /\ colname = None
  /\ coords_file = NoFile
  /\ geocode_calls = NoCalls
  /\ venues_mapped = NoVenueMap

\* res = add_continent_column(df, country_col): the caller's variable df shows
\* what the call assigned into the object it was given
CallAddContinentColumn ==
  \E country_col \in CountryColumns :
    /\ \A c \in ClassifierInputs :
         lookups[c] + RowLookups(df, country_col, c) <= MaxLookups
    /\ \E out \in {add_continent_column(df, country_col)} :
         /\ res' = out
         /\ df' = Store([df |-> df], <<out>>).df
    /\ colname' = country_col
    /\ lookups' = [c \in ClassifierInputs |->
                     lookups[c] + RowLookups(df, country_col, c)]
    /\ UNCHANGED <<args, chained, data, filters, view, code, continent, venueVars>>

NextAnnotate == CallAddContinentColumn

SpecAnnotate == InitAnnotate /\ [][NextAnnotate]_vars

(***************************************************************************)
(* Specification of apply_filters called on a table its caller holds       *)
(***************************************************************************)
\* res = apply_filters(df, ...): the function assigns no column, so the
\* caller's variable df is left with the object it had
CallApplyFiltersOnTable ==
  \E a \in FilterArgs :
    /\ args' = Called(a)
    /\ \E out \in {apply_filters(df, a.countries, a.sports, a.medals)} :
         /\ res' = out
         /\ df' = Store([df |-> df], <<>>).df
    /\ UNCHANGED <<chained, data, filters, view, classVars, venueVars>>

NextCaller == CallApplyFiltersOnTable

SpecCaller == InitAnnotate /\ [][NextCaller]_vars

(***************************************************************************)
(* Properties of apply_filters                                             *)
(***************************************************************************)
Range(s) == {s[i] : i \in 1..Len(s)}

\* the column each criterion of apply_filters is compared against, None
\* when the table has none
CountryColOf(f) == IF "country_code" \in f.cols THEN "country_code" ELSE None

SportColOf(f) == IF "sport" \in f.cols THEN "sport" ELSE None

MedalColOf(f) ==
  IF "medal_type" \in f.cols THEN "medal_type"
  ELSE IF "medal" \in f.cols THEN "medal" ELSE None

\* a criterion restricts a row only when it is non-empty and has a column
Passes(r, col, sel) == sel = {} \/ col = None \/ r[col] \in sel

AllEmpty(a) == a.countries = {} /\ a.sports = {} /\ a.medals = {}

\* C1: apply_filters with every criterion empty returns a table equal to its
\* input: same rows, same order, same columns, no error.
C1_EmptyCriteriaIdentity ==
  (args.called /\ AllEmpty(args)) => res = df

C1_Witness ==
  /\ args.called /\ AllEmpty(args) /\ ~chained
  /\ Len(df.rows) = 2 /\ df.rows[1] # df.rows[2]
  /\ res.rows = df.rows

\* C2: the result of apply_filters is exactly the input rows that satisfy
\* every non-empty criterion at once; an empty criterion restricts nothing.
C2_LogicalAnd ==
  args.called =>
    /\ ~res.raised
    /\ Range(res.rows) =
         {r \in Range(df.rows) :
            /\ Passes(r, CountryColOf(df), args.countries)
            /\ Passes(r, SportColOf(df), args.sports)
            /\ Passes(r, MedalColOf(df), args.medals)}

C2_Witness ==
  /\ args.called /\ ~chained
  /\ args.countries # {} /\ args.sports = {} /\ args.medals # {}
  /\ df.cols = {"country_code", "sport", "medal_type"}
  /\ Len(df.rows) = 2 /\ Len(res.rows) = 1
  /\ \E r \in Range(df.rows) :
       r["country_code"] \in args.countries /\ r["medal_type"] \notin args.medals

\* C3: filtering by country and then by sport in two successive calls gives
\* the same row set as filtering by sport and then by country, and the same
\* as one call with both criteria.
C3_Commutative ==
  [][ (/\ args.called /\ args'.called /\ df' = res
       /\ args.medals = {} /\ args'.medals = {}
       /\ \/ args.sports = {} /\ args'.countries = {}
          \/ args.countries = {} /\ args'.sports = {})
      =>
      LET X == args.countries \cup args'.countries
          Y == args.sports \cup args'.sports
          countryFirst == apply_filters(apply_filters(df, X, {}, {}), {}, Y, {})
          sportFirst == apply_filters(apply_filters(df, {}, Y, {}), X, {}, {})
          both == apply_filters(df, X, Y, {})
      IN /\ Range(res'.rows) = Range(both.rows)
         /\ Range(countryFirst.rows) = Range(sportFirst.rows)
         /\ Range(res'.rows) = Range(countryFirst.rows) ]_vars

C3_Witness ==
  /\ chained /\ args.called
  /\ args.countries = {} /\ args.sports # {} /\ args.medals = {}
  /\ df.cols = {"country_code", "sport", "medal_type"}
  /\ Len(df.rows) = 2 /\ Len(res.rows) = 1
  /\ df.rows[1]["country_code"] = df.rows[2]["country_code"]

\* C4: on a table with a `discipline` column and no `sport` column,
\* apply_filters with a non-empty sports selection keeps only the rows whose
\* discipline is selected.
C4_DisciplineAlias ==
  (/\ args.called /\ args.sports # {}
   /\ "discipline" \in df.cols /\ "sport" \notin df.cols)
  => \A r \in Range(res.rows) : r["discipline"] \in args.sports

\* C7: the medal criterion {"Gold Medal"} on a table with a `medal_type`
\* column returns exactly the rows whose medal_type is "Gold Medal", and an
\* empty table, without an error, when there is none.
C7_GoldMedalType ==
  (/\ args.called /\ args.countries = {} /\ args.sports = {}
   /\ args.medals = {"Gold Medal"} /\ "medal_type" \in df.cols)
  => /\ ~res.raised
     /\ res.cols = df.cols
     /\ res.rows = SelectSeq(df.rows, LAMBDA r : r["medal_type"] = "Gold Medal")

C7_Witness ==
  /\ args.called /\ ~chained /\ args.countries = {} /\ args.sports = {}
  /\ args.medals = {"Gold Medal"} /\ "medal_type" \in df.cols
  /\ Len(df.rows) = 2
  /\ \A r \in Range(df.rows) : r["medal_type"] = "Silver Medal"
  /\ res.rows = <<>> /\ ~res.raised

\* C10: a table without the column of a criterion comes back unfiltered on
\* that dimension for any selection: no error, and no row lost that passes
\* the criteria whose columns the table does have.
C10_MissingColumnSkipped ==
  args.called =>
    /\ ~res.raised
    /\ "country_code" \notin df.cols =>
         \A r \in Range(df.rows) :
           (Passes(r, SportColOf(df), args.sports)
            /\ Passes(r, MedalColOf(df), args.medals)) => r \in Range(res.rows)
    /\ "sport" \notin df.cols =>
         \A r \in Range(df.rows) :
           (Passes(r, CountryColOf(df), args.countries)
            /\ Passes(r, MedalColOf(df), args.medals)) => r \in Range(res.rows)
    /\ ("medal_type" \notin df.cols /\ "medal" \notin df.cols) =>
         \A r \in Range(df.rows) :
           (Passes(r, CountryColOf(df), args.countries)
            /\ Passes(r, SportColOf(df), args.sports)) => r \in Range(res.rows)

C10_Witness ==
  /\ args.called /\ ~chained
  /\ df.cols = {"country_code", "sport"}
  /\ args.medals # {} /\ args.countries = {} /\ args.sports = {}
  /\ Len(df.rows) = 2 /\ res.rows = df.rows /\ ~res.raised

\* C22: when a criterion has removed every row, the criteria after it are
\* applied to the empty table without an error, and the result is an empty
\* table with the columns of the input.
C22_EmptyIntermediate ==
  (/\ args.called
   /\ \/ /\ args.countries # {} /\ "country_code" \in df.cols
          /\ \A r \in Range(df.rows) : r["country_code"] \notin args.countries
          /\ \/ args.sports # {} /\ "sport" \in df.cols
             \/ args.medals # {} /\ MedalColOf(df) # None
      \/ /\ args.sports # {} /\ "sport" \in df.cols
          /\ \A r \in Range(df.rows) : r["sport"] \notin args.sports
          /\ args.medals # {} /\ MedalColOf(df) # None)
  => /\ ~res.raised
     /\ res.rows = <<>>
     /\ res.cols = df.cols

C22_Witness ==
  /\ args.called /\ ~chained
  /\ df.cols = {"country_code", "sport", "medal_type"}
  /\ Len(df.rows) = 2
  /\ args.countries # {} /\ args.sports # {} /\ args.medals # {}
  /\ \A r \in Range(df.rows) : r["country_code"] \notin args.countries
  /\ res.rows = <<>> /\ ~res.raised /\ res.cols = df.cols

\* C23: a call of apply_filters leaves the table it was given with the rows,
\* order and columns it had, whatever the criteria, and returns a table that
\* is another object than the one it was given.
C23_InputUnchanged ==
  [][ /\ df'.cols = df.cols
      /\ df'.rows = df.rows
      /\ df'.origin = df.origin
      /\ res'.origin # df.origin ]_vars

C23_Witness ==
  /\ args.called /\ AllEmpty(args)
  /\ df.origin = "df" /\ res.origin = None
  /\ Len(df.rows) = 2 /\ res.rows = df.rows

\* the rows of t at the positions in I, in their order in t
Pick(t, I) ==
  [k \in 1..Cardinality(I) |->
     t[CHOOSE i \in I : Cardinality({j \in I : j <= i}) = k]]

IsSubsequence(s, t) == \E I \in SUBSET (1..Len(t)) : s = Pick(t, I)

\* C24: the rows apply_filters returns are a subsequence of the input rows
\* (nothing added, duplicated, altered or reordered) and the result has the
\* columns of the input.
C24_Subsequence ==
  args.called =>
    /\ res.cols = df.cols
    /\ IsSubsequence(res.rows, df.rows)

C24_Witness ==
  /\ args.called /\ ~chained
  /\ Len(df.rows) = 2 /\ df.rows[1] # df.rows[2]
  /\ args.medals # {}
  /\ res.rows = <<df.rows[2]>>

\* C25: applying apply_filters with the same criteria to its own result
\* returns that result again.
C25_Idempotent ==
  args.called =>
    apply_filters(res, args.countries, args.sports, args.medals) = res

C25_Witness ==
  /\ args.called /\ chained
  /\ args.countries # {} /\ args.medals # {}
  /\ Len(df.rows) = 2 /\ Len(res.rows) = 1
  /\ apply_filters(res, args.countries, args.sports, args.medals).rows = res.rows

(***************************************************************************)
(* Properties of the pages' filter blocks                                  *)
(***************************************************************************)
Rendered == view.page # None /\ ~view.raised

\* the Filter Criteria label of a gender cell, raw or already mapped
GenderLabel(g) == IF g \in {"M", "W"} THEN gender_map(g) ELSE g

\* C5: on every page, a medal row left in the view passes each of the five
\* criteria that is non-empty (countries, sports, genders, medal types,
\* continents).
C5_AllCriteriaNarrowMedals ==
  Rendered =>
    \A r \in Range(view.medals_df.rows) :
      /\ (filters.countries # {} /\ "country_code" \in DOMAIN r)
           => r["country_code"] \in filters.countries
      /\ (filters.sports # {} /\ "discipline" \in DOMAIN r)
           => r["discipline"] \in filters.sports
      /\ (filters.genders # {} /\ "gender" \in DOMAIN r)
           => GenderLabel(r["gender"]) \in filters.genders
      /\ (filters.medals # {} /\ "medal_type" \in DOMAIN r)
           => r["medal_type"] \in filters.medals
      /\ (filters.continents # {} /\ "country_code" \in DOMAIN r)
           => get_continent_from_country_code(r["country_code"]) \in filters.continents

\* the columns of the loaded medals table that no page rewrites
KeptColumns == data.medals.cols \ {"gender"}

Project(rows) == [i \in 1..Len(rows) |-> [c \in KeptColumns |-> rows[i][c]]]

\* C6: in the pages' gender filtering of medal rows, a "W" row is kept
\* exactly when the criterion contains "Female", an "M" row exactly when it
\* contains "Male", and a row with any other raw code is never kept under a
\* non-empty gender criterion.
C6_GenderNormalized ==
  (/\ Rendered
   /\ view.page \in {"Overview", "Global Analysis", "Sports and Events"}
   /\ "gender" \in data.medals.cols
   /\ filters.genders # {}
   /\ filters.countries = {} /\ filters.sports = {} /\ filters.continents = {}
   /\ filters.medals \in {{}, SidebarOptions(data).medals})
  => Project(view.medals_df.rows) =
       Project(SelectSeq(data.medals.rows,
                         LAMBDA r : gender_map(r["gender"]) \in filters.genders))

\* C8: where a page filters by continent a table that has no `continent`
\* column, a non-empty continent criterion without "Unknown" leaves that
\* table's view empty.
C8_NoContinentColumnIsUnknown ==
  (/\ Rendered /\ view.page = "Sports and Events"
   /\ filters.continents # {} /\ "Unknown" \notin filters.continents)
  => \A t \in {view.medals_df, view.events_df, view.schedules_df} :
       "continent" \notin t.cols => t.rows = <<>>

\* C9: no page's filter pipeline raises, whatever columns the loaded tables
\* lack for the active criteria.
C9_PagesNeverRaise ==
  view.page # None => ~view.raised

\* C21: when the loaded medals table carries country_code, discipline, gender
\* and medal_type, a run of the Global Analysis page and a run of the Sports
\* and Events page under the same criteria leave the same medal rows in
\* their views.
C21_SameMedalRowsAcrossPages ==
  [][ (/\ data.medals.cols = {"country_code", "discipline", "gender", "medal_type"}
       /\ view.page = "Global Analysis" /\ view'.page = "Sports and Events"
       /\ ~view.raised /\ ~view'.raised
       /\ filters' = filters)
      => Project(view'.medals_df.rows) = Project(view.medals_df.rows) ]_vars

(***************************************************************************)
(* Properties of create_sidebar_filters                                    *)
(***************************************************************************)
\* the rows of the loaded medals table whose cell in col is selected
MedalRowsIn(col, sel) == SelectSeq(data.medals.rows, LAMBDA r : r[col] \in sel)

\* the selectable medal values: the distinct non-missing values of the medal
\* column that name gold, silver or bronze
MedalOptions ==
  IF MedalColOf(data.medals) = None THEN {}
  ELSE {v \in UniqueValues(data.medals, MedalColOf(data.medals)) : IsMedalWord(v)}

\* C26: the medal column is resolved alike by the sidebar, apply_filters and
\* the Overview page, `medal_type` before `medal`: every selected medal value
\* is a value of that column, and both apply_filters and the Overview page
\* keep exactly the medal rows whose cell in that column is selected.
C26_OneMedalColumn ==
  LET col == MedalColOf(data.medals)
  IN (col # None) =>
       /\ filters.medals \subseteq UniqueValues(data.medals, col)
       /\ filters.medals # {} =>
            /\ apply_filters(data.medals, {}, {}, filters.medals).rows
                 = MedalRowsIn(col, filters.medals)
            /\ (Rendered /\ view.page = "Overview") =>
                 view.medals_df.rows = MedalRowsIn(col, filters.medals)

C26_Witness ==
  /\ Rendered /\ view.page = "Overview"
  /\ data.medals.cols = {"medal_type", "medal"}
  /\ Len(data.medals.rows) = 2
  /\ data.medals.rows[1]["medal_type"] = "Gold Medal"
  /\ data.medals.rows[1]["medal"] = "Silver Medal"
  /\ data.medals.rows[2]["medal_type"] = "Silver Medal"
  /\ data.medals.rows[2]["medal"] = "Silver Medal"
  /\ filters.medals = {"Gold Medal"}
  /\ view.medals_df.rows = <<data.medals.rows[1]>>

\* the criteria are those of a run without any interaction
Untouched == filters = DefaultFilters(data)

\* C27 as stated: the medal selection is a subset of the selectable medal
\* values and is all of them without interaction; by default the medal
\* criterion is active and the Overview page keeps no medal row whose value
\* is missing or names none of gold, silver, bronze; with every box
\* unchecked the criterion is empty and all rows are kept.
C27_DefaultMedalCriterionActive ==
  LET col == MedalColOf(data.medals)
  IN (col # None) =>
       /\ filters.medals \subseteq MedalOptions
       /\ Untouched => filters.medals = MedalOptions
       /\ (Untouched /\ Rendered /\ view.page = "Overview") =>
            /\ filters.medals # {}
            /\ \A r \in Range(view.medals_df.rows) : IsMedalWord(r[col])
       /\ (filters.medals = {} /\ Rendered /\ view.page = "Overview") =>
            view.medals_df.rows = data.medals.rows

\* C27 amended: the medal selection is a subset of the selectable medal
\* values and is all of them without interaction; whenever the selection is
\* non-empty, as it is by default when the table has a selectable value, the
\* Overview page and apply_filters keep no medal row whose value is missing or
\* names none of gold, silver, bronze; when it is empty, with every box
\* unchecked or with no selectable value at all, all rows are kept.
C27_MedalSelection ==
  LET col == MedalColOf(data.medals)
  IN (col # None) =>
       /\ filters.medals \subseteq MedalOptions
       /\ Untouched => filters.medals = MedalOptions
       /\ (Untouched /\ MedalOptions # {}) => filters.medals # {}
       /\ \A r \in Range(apply_filters(data.medals, {}, {}, filters.medals).rows) :
            filters.medals # {} => IsMedalWord(r[col])
       /\ (filters.medals # {} /\ Rendered /\ view.page = "Overview") =>
            \A r \in Range(view.medals_df.rows) : IsMedalWord(r[col])
       /\ (filters.medals = {} /\ Rendered /\ view.page = "Overview") =>
            view.medals_df.rows = data.medals.rows

C27_Witness ==
  /\ Rendered /\ view.page = "Overview" /\ Untouched
  /\ data.medals.cols = {"medal_type"}
  /\ Len(data.medals.rows) = 2
  /\ data.medals.rows[1]["medal_type"] = "Diploma"
  /\ data.medals.rows[2]["medal_type"] = "Gold Medal"
  /\ filters.medals = {"Gold Medal"}
  /\ view.medals_df.rows = <<data.medals.rows[2]>>

\* no row of the table has a country code that classifies to "Unknown"
NoUnknownRow(t) ==
  \A r \in Range(t.rows) :
    get_continent_from_country_code(r["country_code"]) # "Unknown"

\* C28: "Unknown" is never among the continent options nor in the continent
\* criterion, and under a non-empty continent criterion every table a page
\* filters by continent (medal totals on Overview, medal totals and medals
\* on Global Analysis, medals on Sports and Events) keeps no row whose
\* country code classifies to "Unknown".
C28_UnknownExcluded ==
  /\ "Unknown" \notin SidebarOptions(data).continents
  /\ "Unknown" \notin filters.continents
  /\ (Rendered /\ filters.continents # {}) =>
       /\ view.page \in {"Overview", "Global Analysis"} =>
            NoUnknownRow(view.medals_total_df)
       /\ view.page \in {"Global Analysis", "Sports and Events"} =>
            NoUnknownRow(view.medals_df)

C28_Witness ==
  /\ Rendered /\ view.page = "Sports and Events"
  /\ filters.continents = {"Europe"}
  /\ Len(data.medals.rows) = 2
  /\ data.medals.rows[1]["country_code"] = "EOR"
  /\ data.medals.rows[2]["country_code"] = "FRA"
  /\ Len(view.medals_df.rows) = 1
  /\ view.medals_df.rows[1]["country_code"] = "FRA"

(***************************************************************************)
(* Properties of get_continent_from_country_code                           *)
(***************************************************************************)
Classified == code # None

\* C11: the classifier returns "Europe" for ROC and AIN, "Unknown" for EOR and
\* IOP, and "Unknown" for a missing value and for the empty string.
C11_SpecialAndBlank ==
  Classified =>
    /\ (code \in {"ROC", "AIN"} => continent = "Europe")
    /\ (code \in {"EOR", "IOP"} => continent = "Unknown")
    /\ (code \in {NaN, ""} => continent = "Unknown")

C11_Witness == code = "AIN" /\ continent = "Europe"

\* a step of the reference-data path fails for this code
LookupFails(c) ==
  \/ c \notin DOMAIN Alpha3ToAlpha2
  \/ Alpha3ToAlpha2[c] \notin DOMAIN Alpha2ToContinentCode
  \/ Alpha2ToContinentCode[Alpha3ToAlpha2[c]] \notin DOMAIN ContinentName

\* C12: the classifier is total: every call returns a continent label and no
\* exception leaves it, and the label is "Unknown" for a missing or blank code
\* and whenever a step of the reference-data lookup fails for a code outside
\* the special-case table.
C12_TotalUnknownOnFailure ==
  Classified =>
    /\ continent # LookupError
    /\ continent \in ContinentLabels
    /\ (code \in {NaN, ""} => continent = "Unknown")
    /\ (code \notin DOMAIN special_codes /\ LookupFails(code) => continent = "Unknown")

C12_Witness == code = "TLS" /\ continent = "Unknown"

\* C13: a call with a code outside the four pseudo-codes that the reference
\* data maps to a continent returns the continent name the reference data
\* gives for the code's 2-letter form, and a call that repeats the previous
\* call's code returns the previous call's value.
C13_ReferenceContinent ==
  [][ (code' \notin (DOMAIN special_codes \cup {NaN, "", None}) /\ ~LookupFails(code'))
        => /\ continent' = ContinentName[Alpha2ToContinentCode[Alpha3ToAlpha2[code']]]
           /\ (code = code' => continent' = continent) ]_vars

C13_Witness == code = "JPN" /\ continent = "Asia" /\ lookups["JPN"] = 2

\* C14: the reference-data lookup is made at most once for each distinct
\* country code, whatever the sequence of classifier calls.
C14_LookupAtMostOnce ==
  \A c \in DOMAIN lookups : lookups[c] <= 1

\* C19: ROC, AIN, EOR and IOP always get their special-case value and never
\* reach the reference data, while "roc" and "Ain" get what the reference-data
\* path gives them, after a lookup, and not the special-case value.
C19_SpecialTableExactFirst ==
  Classified =>
    /\ (code \in DOMAIN special_codes =>
          continent = special_codes[code] /\ lookups[code] = 0)
    /\ (code \in {"roc", "Ain"} =>
          /\ lookups[code] >= 1
          /\ continent = IF LookupFails(code) THEN "Unknown"
                         ELSE ContinentName[Alpha2ToContinentCode[Alpha3ToAlpha2[code]]])

C19_Witness == code = "roc" /\ continent = "Unknown" /\ lookups["roc"] = 1

(***************************************************************************)
(* Properties of add_continent_column                                      *)
(***************************************************************************)
\* C15: a call of add_continent_column leaves the caller's table as it was,
\* with the columns and values it had before the call, and returns a table
\* that is another object than the one it was given.
C15_InputNotMutated ==
  [][df' = df /\ res'.origin # df.origin]_vars

\* C16: the returned table has the rows of the input in the same order with
\* the same value in every column the input had (a `continent` column the
\* input already had is the one overwritten), and a `continent` column that
\* holds, row by row, the classifier's value for the named column's cell:
\* "Unknown" where that cell is missing.
C16_AnnotatedTable ==
  [][ /\ ~res'.raised
      /\ res'.cols = df.cols \cup {"continent"}
      /\ Len(res'.rows) = Len(df.rows)
      /\ \A i \in 1..Len(df.rows) :
           /\ \A c \in df.cols \ {"continent"} : res'.rows[i][c] = df.rows[i][c]
           /\ colname' \in df.cols =>
                /\ res'.rows[i]["continent"] =
                     get_continent_from_country_code(df.rows[i][colname'])
                /\ (df.rows[i][colname'] = NaN => res'.rows[i]["continent"] = "Unknown")
    ]_vars

C16_Witness ==
  /\ colname = "country_code"
  /\ {"country_code", "medal_type", "continent"} \subseteq res.cols
  /\ Len(res.rows) = 2
  /\ res.rows[1]["country_code"] = NaN /\ res.rows[1]["continent"] = "Unknown"
  /\ res.rows[2]["country_code"] = "FRA" /\ res.rows[2]["continent"] = "Europe"

\* C17: called with a column name the table does not have, the function
\* raises nothing and returns the table with "Unknown" as every row's
\* continent.
C17_MissingColumnUnknown ==
  (colname # None /\ colname \notin res.cols) =>
     /\ ~res.raised
     /\ "continent" \in res.cols
     /\ Len(res.rows) = Len(df.rows)
     /\ \A i \in 1..Len(res.rows) : res.rows[i]["continent"] = "Unknown"

C17_Witness ==
  /\ colname = "country"
  /\ "country_code" \in res.cols
  /\ Len(res.rows) = 2
  /\ res.rows[1]["country_code"] = "FRA" /\ res.rows[1]["continent"] = "Unknown"
  /\ res.rows[2]["continent"] = "Unknown"

(***************************************************************************)
(* Properties of the shared loaded tables                                  *)
(***************************************************************************)
\* C18: no script run of any page, sidebar included, changes a loaded table:
\* after every run each table of the loaded data has the rows, columns and
\* values it had before the run, so no continent, gender_display, age or
\* coordinate column is written into it and no gender value is rewritten.
C18_LoadedTablesUnchanged == [][data' = data]_vars

C18_Witness ==
  /\ view.page = "Global Analysis"
  /\ ~view.raised
  /\ {"continent", "gender_display"} \subseteq view.medals_df.cols
  /\ Len(view.medals_df.rows) > 0
  /\ {"continent", "gender_display"} \cap data.medals.cols = {}

(***************************************************************************)
(* Properties of the Athlete Performance page                              *)
(***************************************************************************)
\* the discipline names listed in a `disciplines` cell
DisciplinesOf(text) ==
  IF text = "['Volleyball']" THEN {"Volleyball"}
  ELSE IF text = "['Beach Volleyball']" THEN {"Beach Volleyball"}
  ELSE {}

\* C20: on the Athlete Performance page, under a non-empty sports criterion,
\* every athlete row left in the view names a discipline that is equal to one
\* of the selected sports; a row whose discipline only contains a selected
\* name is not left in.
C20_AthleteSportsExact ==
  (Rendered /\ view.page = "Athlete Performance" /\ filters.sports # {}) =>
     \A i \in 1..Len(view.athletes_df.rows) :
       DisciplinesOf(view.athletes_df.rows[i]["disciplines"]) \cap filters.sports # {}

(***************************************************************************)
(* Properties of the venue map                                             *)
(***************************************************************************)
\* the entries of the coordinates file for the venue v
EntriesOf(file, v) ==
  {i \in 1..Len(file.table.rows) : file.table.rows[i]["venue"] = v}

C30_EmptyTotalsHandled ==
  view.page = "Overview" =>
    /\ ~view.raised
    /\ view.insights.top_countries.bound <=> Len(view.medals_total_df.rows) > 0
    /\ Len(view.medals_total_df.rows) = 0 =>
         /\ view.insights.chart = "No medal total data available with current filters"
         /\ view.insights.insight = "No medal data available with current filters"

\* the criteria have emptied a medal-totals table that has rows, and the run
\* went on to its end
C30_Witness ==
  /\ view.page = "Overview"
  /\ ~view.raised
  /\ Len(data.medals_total.rows) > 0
  /\ filters.countries # {}
  /\ filters.continents # {}
  /\ view.medals_total_df.rows = <<>>
  /\ ~view.insights.top_countries.bound
  /\ view.insights.insight = "No medal data available with current filters"

====
